---- MODULE Spec2Model ----
(***************************************************************************)
(* Container lifecycle engine of ambience.                                 *)
(*                                                                         *)
(* The model follows lib/Container.js in its pair-rule form (TransitRules  *)
(* over the States base class of evo-elements) together with the test      *)
(* interior of test/Container-unit-test.js.  The States base class is not  *)
(* among the sources; its setter and setExpectation are written from the   *)
(* transition-execution steps of the specification (section 4.2).          *)
(*                                                                         *)
(* The whole world is one record c:                                        *)
(*   state, expectation, accepts   States / TransitRules                   *)
(*   interiorState, status         Container                               *)
(*   events                        what the Container has emitted          *)
(*   tasks                         the process.nextTick queue (FIFO)       *)
(*   fn, delivery, inflight        the interior behind the Container       *)
(*   calls                         interior methods invoked so far         *)
(*   result                        outcome of the last setState call       *)
(* log records the external inputs in the order they were given.           *)
(*                                                                         *)
(* program is the container registry of lib/Program.js with the engines it *)
(* has constructed; it is "none" while a Container is studied on its own.  *)
(***************************************************************************)
EXTENDS Naturals, Sequences, FiniteSets, TLC

VARIABLES c, log, program

vars == <<c, log, program>>

\* ---------------------------------------------------------------- bounds

MaxInputs == 3        \* calls of setState and reports the interior makes on its own
MaxRounds == 3        \* setState calls given one at a time to an engine at rest

\* ------------------------------------------------------------ vocabulary

STABLE_STATES == <<"offline", "stopped", "running">>

Stable == {STABLE_STATES[i] : i \in 1..Len(STABLE_STATES)}

Transient == {"loading", "unloading", "starting", "stopping"}

None == "none"

Actions == {"load", "unload", "start", "stop"}

\* arguments a caller may hand to setState: the stable names and a name
\* that is not stable
Targets == Stable \cup {"loading"}

\* data an interior may hand to monitor('state', data)
Reported == Stable \cup {"starting"}

Payloads == {"p1", "p2"}

InSeq(x, s) == \E i \in 1..Len(s) : s[i] = x

\* ---------------------------------------------------------------- events

\* a _stateTransit that hands its arguments on in the other order
StateEv_swapped(curr, prev) == [type |-> "state", curr |-> prev, prev |-> curr]

StateEv(curr, prev) == [type |-> "state", curr |-> curr, prev |-> prev]

\* a _stateReady that logs the state and emits nothing
ReadyEv_silent(s) == [type |-> "log", state |-> s]

ReadyEv(s) == [type |-> "ready", state |-> s]

TransitionErr(exp, actual, accepts) ==
    [type |-> "error", kind |-> "transition",
     expectation |-> exp, actual |-> actual, accepts |-> accepts]

InteriorErr(err) == [type |-> "error", kind |-> "interior", err |-> err]

StatusEv(data) == [type |-> "status", data |-> data]

Emit(e, ev) == [e EXCEPT !.events = Append(@, ev)]

\* ------------------------------------------------- TransitRules (part_002)

\* _invoke posts one nextTick task; InvokeTick below is that task's body
_invoke(intermediateState, action, autoTransitState) ==
    [type |-> "transit", to |-> intermediateState,
     action |-> action, auto |-> autoTransitState]

NoInvoke == <<>>

RuleResult(invoke, accepts) == [invoke |-> invoke, accepts |-> accepts]

offline_stopped ==
    RuleResult(<<_invoke("loading", "load", "stopped")>>, <<"loading", "stopped">>)

\* an offline:running rule that accepts running as well
offline_running_wide ==
    RuleResult(<<_invoke("loading", "load", "stopped")>>,
               <<"loading", "stopped", "running">>)

offline_running ==
    RuleResult(<<_invoke("loading", "load", "stopped")>>, <<"loading", "stopped">>)

loading_offline ==
    RuleResult(<<_invoke("unloading", "unload", "offline")>>,
               <<"unloading", "stopped", "offline">>)

loading_stopped == RuleResult(NoInvoke, <<"stopped">>)

\* a loading:running rule that waits for running instead of stopped
loading_running_skips == RuleResult(NoInvoke, <<"running">>)

loading_running == RuleResult(NoInvoke, <<"stopped">>)

\* a stopped:offline rule that forgets its _invoke
stopped_offline_idle == RuleResult(NoInvoke, <<"unloading", "offline">>)

stopped_offline ==
    RuleResult(<<_invoke("unloading", "unload", "offline")>>, <<"unloading", "offline">>)

stopped_running ==
    RuleResult(<<_invoke("starting", "start", None)>>, <<"starting", "running">>)

starting_offline ==
    RuleResult(<<_invoke("stopping", "stop", None)>>, <<"running", "stopping", "stopped">>)

starting_stopped ==
    RuleResult(<<_invoke("stopping", "stop", None)>>, <<"running", "stopping", "stopped">>)

\* a starting:running rule that repeats the accepts of stopped:running
starting_running_wide == RuleResult(NoInvoke, <<"starting", "running">>)

starting_running == RuleResult(NoInvoke, <<"running">>)

running_stopped ==
    RuleResult(<<_invoke("stopping", "stop", None)>>, <<"stopping", "stopped">>)

running_offline ==
    RuleResult(<<_invoke("stopping", "stop", None)>>, <<"stopping", "stopped">>)

stopping_offline == RuleResult(NoInvoke, <<"stopped">>)

stopping_stopped == RuleResult(NoInvoke, <<"stopped">>)

\* a stopping:running rule that schedules the start at once
stopping_running_eager ==
    RuleResult(<<_invoke("starting", "start", None)>>, <<"stopped">>)

stopping_running == RuleResult(NoInvoke, <<"stopped">>)

unloading_offline == RuleResult(NoInvoke, <<"offline">>)

unloading_stopped == RuleResult(NoInvoke, <<"offline">>)

unloading_running == RuleResult(NoInvoke, <<"offline">>)

\* the method named current + ':' + expectation
TransitRules(current, expectation) ==
    CASE current = "offline"   /\ expectation = "stopped" -> offline_stopped
      [] current = "offline"   /\ expectation = "running" -> offline_running
      [] current = "loading"   /\ expectation = "offline" -> loading_offline
      [] current = "loading"   /\ expectation = "stopped" -> loading_stopped
      [] current = "loading"   /\ expectation = "running" -> loading_running
      [] current = "stopped"   /\ expectation = "offline" -> stopped_offline
      [] current = "stopped"   /\ expectation = "running" -> stopped_running
      [] current = "starting"  /\ expectation = "offline" -> starting_offline
      [] current = "starting"  /\ expectation = "stopped" -> starting_stopped
      [] current = "starting"  /\ expectation = "running" -> starting_running
      [] current = "running"   /\ expectation = "stopped" -> running_stopped
      [] current = "running"   /\ expectation = "offline" -> running_offline
      [] current = "stopping"  /\ expectation = "offline" -> stopping_offline
      [] current = "stopping"  /\ expectation = "stopped" -> stopping_stopped
      [] current = "stopping"  /\ expectation = "running" -> stopping_running
      [] current = "unloading" /\ expectation = "offline" -> unloading_offline
      [] current = "unloading" /\ expectation = "stopped" -> unloading_stopped
      [] current = "unloading" /\ expectation = "running" -> unloading_running

\* ------------------------------------------------ States (specification 4.2)

\* step 1: look up the rule for (state, expectation); the rule posts its
\* _invoke task and its result becomes the accepts list
States_plan(e) ==
    LET r == TransitRules(e.state, e.expectation)
    IN  [e EXCEPT !.accepts = r.accepts, !.tasks = @ \o r.invoke]

\* 'done' -> Container._stateReady -> emit('ready')
States_done(e) ==
    [Emit(e, ReadyEv(e.state)) EXCEPT !.expectation = None, !.accepts = <<>>]

\* 'error' -> Container._transitionError -> emit('error')
States_fail(e) ==
    [Emit(e, TransitionErr(e.expectation, e.state, e.accepts))
        EXCEPT !.expectation = None, !.accepts = <<>>]

\* setExpectation: record the expectation, then plan from the current state
States_setExpectation(e, expectation) ==
    LET e1 == [e EXCEPT !.expectation = expectation]
    IN  IF e.state = expectation THEN States_done(e1) ELSE States_plan(e1)

\* the setter of 'current' (step 4): a value equal to the current state is
\* a no-op; otherwise 'state' is emitted and the value is validated
States_setCurrent(e, s) ==
    IF s = e.state THEN e
    ELSE LET e1 == Emit([e EXCEPT !.state = s], StateEv(s, e.state))
         IN  IF e.expectation = None THEN e1
             ELSE IF ~InSeq(s, e.accepts) THEN States_fail(e1)
             ELSE IF s = e.expectation THEN States_done(e1)
             ELSE States_plan(e1)

\* ------------------------------------------------ the interior (test double)

\* TestInterior: a method that exists sets 'state', and the setter of
\* 'state' hands the value to the monitor from a nextTick task.  fn[a] is
\* None when the interior lacks method a, and the state method a reports
\* otherwise.  An interior with delivery "io" reports from an I/O callback
\* instead, which runs once the nextTick queue has drained.
TestInterior_report(e, s) ==
    IF e.delivery = "tick"
    THEN [e EXCEPT !.tasks = Append(@, [type |-> "report", data |-> s])]
    ELSE [e EXCEPT !.inflight = Append(@, s)]

\* fn.call(interior, {})
Interior_call(e, action) ==
    TestInterior_report([e EXCEPT !.calls = Append(@, action)], e.fn[action])

\* --------------------------------------------------- Container (part_002)

Container_interiorError(e, err) == Emit(e, InteriorErr(err))

\* a monitor that forgets to record the reported state
Container_monitorEvent_unrecorded(e, event, data) ==
    CASE event = "error"  -> Container_interiorError(e, data)
      [] event = "state"  ->
            IF InSeq(data, STABLE_STATES) THEN States_setCurrent(e, data) ELSE e
      [] event = "status" -> Emit([e EXCEPT !.status = data], StatusEv(data))
      [] OTHER -> e

\* a monitor that stores the status without emitting it
Container_monitorEvent_silent(e, event, data) ==
    CASE event = "error"  -> Container_interiorError(e, data)
      [] event = "state"  ->
            IF InSeq(data, STABLE_STATES)
            THEN States_setCurrent([e EXCEPT !.interiorState = data], data)
            ELSE e
      [] event = "status" -> [e EXCEPT !.status = data]
      [] OTHER -> e

\* a monitor that keeps the first status it was given
Container_monitorEvent_firstwins(e, event, data) ==
    CASE event = "error"  -> Container_interiorError(e, data)
      [] event = "state"  ->
            IF InSeq(data, STABLE_STATES)
            THEN States_setCurrent([e EXCEPT !.interiorState = data], data)
            ELSE e
      [] event = "status" ->
            Emit([e EXCEPT !.status = IF @ = None THEN data ELSE @], StatusEv(data))
      [] OTHER -> e

\* a monitor that takes whatever state name it is given
Container_monitorEvent_lax(e, event, data) ==
    CASE event = "error"  -> Container_interiorError(e, data)
      [] event = "state"  -> States_setCurrent([e EXCEPT !.interiorState = data], data)
      [] event = "status" -> Emit([e EXCEPT !.status = data], StatusEv(data))
      [] OTHER -> e

Container_monitorEvent(e, event, data) ==
    CASE event = "error"  -> Container_interiorError(e, data)
      [] event = "state"  ->
            IF InSeq(data, STABLE_STATES)
            THEN States_setCurrent([e EXCEPT !.interiorState = data], data)
            ELSE e
      [] event = "status" -> Emit([e EXCEPT !.status = data], StatusEv(data))
      [] OTHER -> e

\* a setState that falls back to 'offline' instead of throwing
Container_setState_defaults(e, expectedState) ==
    LET t == IF InSeq(expectedState, STABLE_STATES) THEN expectedState ELSE "offline"
    IN  [States_setExpectation(e, t) EXCEPT !.result = "ok"]

Container_setState(e, expectedState) ==
    IF ~InSeq(expectedState, STABLE_STATES)
    THEN [e EXCEPT !.result = "InvalidArgument"]
    ELSE [States_setExpectation(e, expectedState) EXCEPT !.result = "ok"]

\* an _invoke that forgets the automatic transition
InvokeTick_stuck(e, t) ==
    LET e1 == States_setCurrent(e, t.to)
    IN  IF e1.fn[t.action] # None
        THEN [e1 EXCEPT !.tasks = Append(@, [type |-> "call", action |-> t.action])]
        ELSE e1

\* an _invoke that writes the intermediate state without validating it
InvokeTick_unchecked(e, t) ==
    LET e1 == IF t.to = e.state THEN e
              ELSE Emit([e EXCEPT !.state = t.to], StateEv(t.to, e.state))
    IN  IF e1.fn[t.action] # None
        THEN [e1 EXCEPT !.tasks = Append(@, [type |-> "call", action |-> t.action])]
        ELSE IF t.auto # None
        THEN [e1 EXCEPT !.tasks = Append(@, [type |-> "auto", to |-> t.auto])]
        ELSE e1

\* an _invoke that calls the interior's method before it enters the
\* intermediate state
InvokeTick_early(e, t) ==
    IF e.fn[t.action] # None
    THEN States_setCurrent(Interior_call(e, t.action), t.to)
    ELSE LET e1 == States_setCurrent(e, t.to)
         IN  IF t.auto # None
             THEN [e1 EXCEPT !.tasks = Append(@, [type |-> "auto", to |-> t.auto])]
             ELSE e1

\* the body of the task _invoke posts: enter the intermediate state, then
\* post the call of the interior's method or, without one, the automatic
\* transition
InvokeTick(e, t) ==
    LET e1 == States_setCurrent(e, t.to)
    IN  IF e1.fn[t.action] # None
        THEN [e1 EXCEPT !.tasks = Append(@, [type |-> "call", action |-> t.action])]
        ELSE IF t.auto # None
        THEN [e1 EXCEPT !.tasks = Append(@, [type |-> "auto", to |-> t.auto])]
        ELSE e1

\* one task of the nextTick queue, already taken off the queue in e
RunTask(e, t) ==
    CASE t.type = "transit" -> InvokeTick(e, t)
      [] t.type = "call"    -> Interior_call(e, t.action)
      [] t.type = "auto"    -> States_setCurrent(e, t.to)
      [] t.type = "report"  -> Container_monitorEvent(e, "state", t.data)

\* ------------------------------------------------------------ the machine

\* the test interior of the unit test: every method present, each reporting
\* the state it is meant to produce
Cooperative ==
    [load |-> "stopped", unload |-> "offline", start |-> "running", stop |-> "stopped"]

\* the interiors: the test interior, the one whose start reports stopped,
\* and those that lack load, unload, both, start or stop
Profiles ==
    {Cooperative,
     [Cooperative EXCEPT !.start = "stopped"],
     [Cooperative EXCEPT !.load = None],
     [Cooperative EXCEPT !.unload = None],
     [Cooperative EXCEPT !.load = None, !.unload = None],
     [Cooperative EXCEPT !.start = None],
     [Cooperative EXCEPT !.stop = None]}

NewContainer(fn, delivery) ==
    [state |-> "offline", expectation |-> None, accepts |-> <<>>,
     interiorState |-> "offline", status |-> None,
     events |-> <<>>, tasks |-> <<>>,
     fn |-> fn, delivery |-> delivery, inflight |-> <<>>,
     calls |-> <<>>, result |-> None]

Count(op) == Cardinality({i \in 1..Len(log) : log[i].op = op})

\* an input is logged with the engine's state at that moment and whether
\* the engine was idle then (nothing queued, no report owed)
Logged(op, arg) ==
    Append(log, [op |-> op, arg |-> arg, at |-> c.state,
                 idle |-> (c.tasks = <<>> /\ c.inflight = <<>>)])

Init ==
    /\ \E fn \in Profiles, d \in {"tick", "io"} : c = NewContainer(fn, d)
    /\ log = <<>>
    /\ program = None

\* a caller invokes container.setState(x)
SetState ==
    \E x \in Targets :
        /\ Len(log) < MaxInputs
        /\ c' = Container_setState(c, x)
        /\ log' = Logged("setState", x)
        /\ UNCHANGED program

\* the head of the nextTick queue runs
Tick ==
    /\ c.tasks # <<>>
    /\ c' = RunTask([c EXCEPT !.tasks = Tail(@)], Head(c.tasks))
    /\ UNCHANGED <<log, program>>

\* an I/O callback of the interior hands a pending state to the monitor
Deliver ==
    /\ c.tasks = <<>>
    /\ c.inflight # <<>>
    /\ c' = Container_monitorEvent([c EXCEPT !.inflight = Tail(@)],
                                   "state", Head(c.inflight))
    /\ UNCHANGED <<log, program>>

\* the interior changes state on its own and reports it
Spontaneous ==
    \E s \in Reported :
        /\ Len(log) < MaxInputs
        /\ c.tasks = <<>>
        /\ c' = TestInterior_report(c, s)
        /\ log' = Logged("spont", s)
        /\ UNCHANGED program

\* the interior reports a status payload
MonitorStatus ==
    \E p \in Payloads :
        /\ Len(log) < MaxInputs
        /\ c' = Container_monitorEvent(c, "status", p)
        /\ log' = Logged("monitor", p)
        /\ UNCHANGED program

\* the interior reports an error
MonitorError ==
    /\ Len(log) < MaxInputs
    /\ c' = Container_monitorEvent(c, "error", "err")
    /\ log' = Logged("monitor", "err")
    /\ UNCHANGED program

Next ==
    \/ SetState
    \/ Tick
    \/ Deliver
    \/ Spontaneous

Spec == Init /\ [][Next]_vars

InitMonitor ==
    /\ \E d \in {"tick", "io"} : c = NewContainer(Cooperative, d)
    /\ log = <<>>
    /\ program = None

NextMonitor ==
    \/ SetState
    \/ Tick
    \/ Deliver
    \/ Spontaneous
    \/ MonitorStatus
    \/ MonitorError

\* the same machine with the interior's status and error reports
SpecMonitor == InitMonitor /\ [][NextMonitor]_vars

TypeOK ==
    /\ c.state \in Stable \cup Transient
    /\ c.expectation \in Stable \cup {None}
    /\ c.interiorState \in Stable
    /\ c.status \in Payloads \cup {None}

\* ------------------------------------ Container, class-based form (part_001)

INTERIOR_STATES == <<"offline", "stopped", "running">>

\* the StateMachine the constructor builds: <<state, trigger, next state>>
MachineTable ==
    {<<"offline",   "state-stopped",    "stopped">>,
     <<"offline",   "state-running",    "running">>,
     <<"offline",   "state-offline",    "offline">>,
     <<"offline",   "action-load",      "loading">>,
     <<"loading",   "state-stopped",    "stopped">>,
     <<"loading",   "state-running",    "running">>,
     <<"loading",   "state-offline",    "loading">>,
     <<"loading",   "action-unloading", "unloading">>,
     <<"loading",   "interior-error",   "offline">>,
     <<"unloading", "state-stopped",    "unloading">>,
     <<"unloading", "state-running",    "running">>,
     <<"unloading", "state-offline",    "offline">>,
     <<"unloading", "interior-error",   "stopped">>,
     <<"stopped",   "state-stopped",    "stopped">>,
     <<"stopped",   "state-running",    "running">>,
     <<"stopped",   "state-offline",    "offline">>,
     <<"stopped",   "action-start",     "starting">>,
     <<"stopped",   "action-unload",    "unloading">>,
     <<"running",   "state-stopped",    "stopped">>,
     <<"running",   "state-running",    "running">>,
     <<"running",   "state-offline",    "offline">>,
     <<"running",   "action-stop",      "stopping">>,
     <<"starting",  "state-stopped",    "starting">>,
     <<"starting",  "state-running",    "running">>,
     <<"starting",  "state-offline",    "offline">>,
     <<"starting",  "action-stop",      "stopping">>,
     <<"starting",  "interior-error",   "stopped">>,
     <<"stopping",  "state-stopped",    "stopped">>,
     <<"stopping",  "state-running",    "stopping">>,
     <<"stopping",  "state-offline",    "offline">>,
     <<"stopping",  "action-stop",      "stopping">>,
     <<"stopping",  "interior-error",   "running">>}

\* .when(trigger).to(next) of the state; None without such a line
When(state, trigger) ==
    IF \E r \in MachineTable : r[1] = state /\ r[2] = trigger
    THEN (CHOOSE r \in MachineTable : r[1] = state /\ r[2] = trigger)[3]
    ELSE None

\* _stateTransit(curr, next): emit('state', next, curr)
Legacy_stateTransit(e, curr, next) == Emit(e, StateEv(next, curr))

\* an invocation of an interior method; opts is its force flag
Invocation(action, opts) == [action |-> action, force |-> opts]

\* State.enter(transit, fn, opts): with a function, post its call
State_enter(e, action, opts) ==
    IF action # None
    THEN [e EXCEPT !.tasks = Append(@, [type |-> "invoke", action |-> action,
                                         force |-> opts])]
    ELSE e

\* StateMachine.transit(trigger, fn, opts), as Container uses it: follow the
\* table, report the change through 'transit' and enter the next state with
\* the remaining arguments; a trigger the state has no line for is dropped
StateMachine_transit(e, trigger, action, opts) ==
    LET next == When(e.state, trigger)
    IN  IF next = None THEN e
        ELSE State_enter(Legacy_stateTransit([e EXCEPT !.state = next], e.state, next),
                         action, opts)

\* State._badAction throws
State_badAction(e, name) == [e EXCEPT !.result = "InvalidOperation"]

State_doAction(e, action, opts, fallback) ==
    IF e.fn[action] # None
    THEN StateMachine_transit(e, "action-" \o action, action, opts)
    ELSE IF fallback # None
    THEN StateMachine_transit(e, fallback, None, FALSE)
    ELSE State_badAction(e, action)

\* fn.call(interior, opts) on the test interior
Interior_invoke(e, action, opts) ==
    TestInterior_report([e EXCEPT !.calls = Append(@, Invocation(action, opts))],
                        e.fn[action])

\* StoppingState.dostop: a forced stop goes to the interior at once
StoppingState_dostop(e, opts) ==
    IF opts THEN Interior_invoke(e, "stop", opts) ELSE e

\* State._action: the method 'do' + name of the current state's class
State_action(e, name, opts) ==
    CASE e.state = "offline" ->
            CASE name = "load"   -> State_doAction(e, "load", opts, "state-stopped")
              [] name = "unload" -> e
              [] OTHER -> State_badAction(e, name)
      [] e.state = "loading" ->
            CASE name = "unload" -> State_doAction(e, "unload", opts, "state-offline")
              [] name = "load"   -> e
              [] OTHER -> State_badAction(e, name)
      [] e.state = "unloading" ->
            CASE name = "unload" -> e
              [] OTHER -> State_badAction(e, name)
      [] e.state = "stopped" ->
            CASE name = "unload" -> State_doAction(e, "unload", opts, "state-offline")
              [] name = "start"  -> State_doAction(e, "start", opts, None)
              [] name = "stop"   -> e
              [] OTHER -> State_badAction(e, name)
      [] e.state = "starting" ->
            CASE name = "stop"   -> State_doAction(e, "stop", opts, None)
              [] name = "start"  -> e
              [] OTHER -> State_badAction(e, name)
      [] e.state = "running" ->
            CASE name = "stop"   -> State_doAction(e, "stop", opts, None)
              [] name = "start"  -> e
              [] OTHER -> State_badAction(e, name)
      [] e.state = "stopping" ->
            CASE name = "stop"   -> StoppingState_dostop(e, opts)
              [] OTHER -> State_badAction(e, name)

\* container.load / unload / start / stop (opts)
Legacy_action(e, action, opts) ==
    State_action([e EXCEPT !.result = "ok"], action, opts)

\* the states whose class has onerror
HasOnError == {"loading", "unloading", "starting", "stopping"}

State_error(e, err) ==
    IF e.state \in HasOnError
    THEN StateMachine_transit(e, "interior-error", None, FALSE)
    ELSE Emit(e, InteriorErr(err))

Legacy_monitorEvent(e, event, data) ==
    CASE event = "error"  -> State_error(e, data)
      [] event = "state"  ->
            IF InSeq(data, INTERIOR_STATES)
            THEN StateMachine_transit([e EXCEPT !.interiorState = data],
                                      "state-" \o data, None, FALSE)
            ELSE e
      [] event = "status" -> Emit([e EXCEPT !.status = data], StatusEv(data))
      [] OTHER -> e

\* the nextTick task State.enter posted
Legacy_runTask(e, t) == Interior_invoke(e, t.action, t.force)

\* ------------------------------------------------------ Program (part_003)

Ids == {"a", "b"}

\* which lib/Container.js the Program requires: the class-based one, whose
\* load / unload / start / stop the Program calls, or the pair-rule one,
\* which has no such methods
Variants == {"class", "rules"}

\* the configurations a create carries.  An object configuration is written
\* as the interior it names (one without a name takes defaultInterior);
\* NotObject is a configuration that is neither an object nor a function
NotObject == "number"

Configs == {"external", "bogus", "constructor", NotObject}

\* Container.interiors, an object literal: its own property, and the
\* properties every object inherits from Object.prototype
Registered == {"external"}

Inherited == {"constructor"}

\* Container.interiors[name]: a registered factory, the inherited function
\* Object, or undefined
Container_interiors(name) ==
    CASE name \in Registered -> "factory"
      [] name \in Inherited  -> "Object"
      [] OTHER -> None

\* the constructor of Container throws: 'Invalid configuration' for what
\* is no object, 'Invalid interior' when the lookup finds nothing
Container_throws(conf) ==
    \/ conf = NotObject
    \/ Container_interiors(conf) = None

\* an interior with none of load / unload / start / stop
NoMethods == [load |-> None, unload |-> None, start |-> None, stop |-> None]

\* factory(id, {logger, monitor}): a registered factory makes an interior
\* with every method (the test interior stands for it), which reports from
\* I/O callbacks; Object(id, conf, params) makes a String object, which has
\* no method of an interior and never calls the monitor
Container_factory(conf) ==
    IF Container_interiors(conf) = "factory"
    THEN NewContainer(Cooperative, "io")
    ELSE NewContainer(NoMethods, "never")

\* new Container(id, conf, logger), for a conf the constructor takes
\* asked: the methods the Program has called on the container
NewEngine(id, conf) == ("id" :> id) @@ ("asked" :> <<>>) @@ Container_factory(conf)

\* a request (op, id, force) or an interior's callback (op, engine, data)
Request(op, id, force) ==
    [op |-> op, id |-> id, engine |-> 0, force |-> force, data |-> None]

\* the request container.create {id, conf}
CreateRequest(id, conf) == [Request("create", id, FALSE) EXCEPT !.data = conf]

Callback(op, i, data) ==
    [op |-> op, id |-> None, engine |-> i, force |-> FALSE, data |-> data]

NoMessage == Request(None, None, FALSE)

\* this._containers = {}: no id has an engine; engines holds every
\* Container constructed so far, registered or not; received counts the
\* messages handed to the Program and request is the last of them;
\* response is the answer to the last request and info its payload
NewProgram(variant) ==
    [variant |-> variant,
     containers |-> [id \in Ids |-> 0],
     engines |-> <<>>,
     cast |-> [event |-> None],
     response |-> [op |-> None, id |-> None, result |-> None],
     info |-> None,
     received |-> 0,
     request |-> NoMessage]

\* Object.keys(this._containers)
Keys(w) == {id \in Ids : w.containers[id] # 0}

\* this.neuron.cast(m): the message last handed to the broadcast channel
Cast(w, m) == [w EXCEPT !.cast = m]

\* an onContainerState that removes the entry on every offline
Program_onContainerState_eager(w, state, lastState, id) ==
    LET w1 == Cast(w, [event |-> "container.state", id |-> id,
                       state |-> state, lastState |-> lastState])
    IN  IF state = "offline"
        THEN [w1 EXCEPT !.containers[id] = 0]
        ELSE w1

Program_onContainerState(w, state, lastState, id) ==
    LET w1 == Cast(w, [event |-> "container.state", id |-> id,
                       state |-> state, lastState |-> lastState])
    IN  IF state = "offline" /\ lastState # "offline"
        THEN [w1 EXCEPT !.containers[id] = 0]
        ELSE w1

Program_onContainerStatus(w, status, id) ==
    Cast(w, [event |-> "container.status", id |-> id, status |-> status])

Program_onContainerError(w, err, id) ==
    Cast(w, [event |-> "container.error", id |-> id, err |-> err])

\* the listeners _addContainer binds, run for one event of the engine id
Program_on(w, id, ev) ==
    CASE ev.type = "state"  -> Program_onContainerState(w, ev.curr, ev.prev, id)
      [] ev.type = "status" -> Program_onContainerStatus(w, ev.data, id)
      [] ev.type = "error"  -> Program_onContainerError(w, ev, id)
      [] OTHER -> w

RECURSIVE Program_dispatch(_, _, _)
Program_dispatch(w, id, evs) ==
    IF evs = <<>> THEN w
    ELSE Program_dispatch(Program_on(w, id, Head(evs)), id, Tail(evs))

\* engine i has become e2: the listeners run for every event it emitted
Program_listen(w, i, e2) ==
    LET old == w.engines[i].events
    IN  Program_dispatch([w EXCEPT !.engines[i] = e2], e2.id,
                         SubSeq(e2.events, Len(old) + 1, Len(e2.events)))

Respond(w, op, id, result, info) ==
    [w EXCEPT !.response = [op |-> op, id |-> id, result |-> result], !.info = info]

\* container.toObject()
Container_toObject(e) ==
    [id |-> e.id, state |-> e.state, interiorState |-> e.interiorState,
     recentStatus |-> e.status]

\* logic.call(this, container) inside Try.final, for the logic that calls
\* container[method](opts): toObject answers the query; the class-based
\* Container runs load / unload / start / stop, and on the pair-rule
\* Container these are undefined, so that the call throws a TypeError
Program_invoke(w, op, i, method, opts) ==
    IF method = "toObject"
    THEN Respond(w, op, w.engines[i].id, "ok", Container_toObject(w.engines[i]))
    ELSE LET w1 == [w EXCEPT !.engines[i].asked = Append(@, method)]
         IN  IF w.variant = "class"
             THEN LET e2 == Legacy_action(w1.engines[i], method, opts)
                  IN  Respond(Program_listen(w1, i, e2), op, e2.id, e2.result, None)
             ELSE Respond(w1, op, w1.engines[i].id, "TypeError", None)

\* a create that replaces the engine registered under the id
Program_create_replaces(w, id, conf) ==
    IF Container_throws(conf)
    THEN Respond(w, "create", id, "Error", None)
    ELSE LET i == Len(w.engines) + 1
         IN  Program_invoke([w EXCEPT !.engines = Append(@, NewEngine(id, conf)),
                                      !.containers[id] = i],
                            "create", i, "load", FALSE)

\* 'neuron:container.create' and _addContainer: a constructor that throws
\* ends the handler in req.done(err) before anything is registered; the
\* engine constructed is registered first and loaded next
Program_create(w, id, conf) ==
    IF w.containers[id] # 0
    THEN Respond(w, "create", id, "Conflict", None)
    ELSE IF Container_throws(conf)
    THEN Respond(w, "create", id, "Error", None)
    ELSE LET i == Len(w.engines) + 1
         IN  Program_invoke([w EXCEPT !.engines = Append(@, NewEngine(id, conf)),
                                      !.containers[id] = i],
                            "create", i, "load", FALSE)

\* a _withContainer that takes the first engine for an unknown id
Program_withContainer_lenient(w, op, id, method, opts) ==
    IF w.containers[id] # 0
    THEN Program_invoke(w, op, w.containers[id], method, opts)
    ELSE IF w.engines # <<>>
    THEN Program_invoke(w, op, 1, method, opts)
    ELSE Respond(w, op, id, "NotFound", None)

\* _withContainer, with the method the handler calls on the container
Program_withContainer(w, op, id, method, opts) ==
    IF w.containers[id] # 0
    THEN Program_invoke(w, op, w.containers[id], method, opts)
    ELSE Respond(w, op, id, "NotFound", None)

Program_start(w, id) == Program_withContainer(w, "start", id, "start", FALSE)

Program_stop(w, id, force) == Program_withContainer(w, "stop", id, "stop", force)

Program_destroy(w, id) == Program_withContainer(w, "destroy", id, "unload", FALSE)

Program_query(w, id) == Program_withContainer(w, "query", id, "toObject", FALSE)

Program_list(w) == Respond(w, "list", None, "ok", Keys(w))

\* the monitor of engine e, in the form of the Container required
Engine_monitorEvent(w, e, event, data) ==
    IF w.variant = "class"
    THEN Legacy_monitorEvent(e, event, data)
    ELSE Container_monitorEvent(e, event, data)

\* ------------------------------------------------- the Program as a machine

MaxMessages == 4      \* requests sent to the Program and reports the interiors make on their own

\* the Program is handed message m: a request, or an interior's callback
Receive(w, m) == [w EXCEPT !.received = @ + 1, !.request = m]

\* the nextTick queue is empty: a request or an interior's callback can run
Drained == \A i \in 1..Len(program.engines) : program.engines[i].tasks = <<>>

CanReceive == Drained /\ program.received < MaxMessages

InitProgram ==
    /\ \E v \in Variants : program = NewProgram(v)
    /\ c = None
    /\ log = <<>>

Create ==
    \E id \in Ids, conf \in Configs :
        /\ CanReceive
        /\ program' = Program_create(Receive(program, CreateRequest(id, conf)), id, conf)
        /\ UNCHANGED <<c, log>>

Start ==
    \E id \in Ids :
        /\ CanReceive
        /\ program' = Program_start(Receive(program, Request("start", id, FALSE)), id)
        /\ UNCHANGED <<c, log>>

Stop ==
    \E id \in Ids, force \in BOOLEAN :
        /\ CanReceive
        /\ program' = Program_stop(Receive(program, Request("stop", id, force)), id, force)
        /\ UNCHANGED <<c, log>>

Destroy ==
    \E id \in Ids :
        /\ CanReceive
        /\ program' = Program_destroy(Receive(program, Request("destroy", id, FALSE)), id)
        /\ UNCHANGED <<c, log>>

Query ==
    \E id \in Ids :
        /\ CanReceive
        /\ program' = Program_query(Receive(program, Request("query", id, FALSE)), id)
        /\ UNCHANGED <<c, log>>

List ==
    /\ CanReceive
    /\ program' = Program_list(Receive(program, Request("list", None, FALSE)))
    /\ UNCHANGED <<c, log>>

\* the nextTick task an engine posted runs
Invoke ==
    \E i \in 1..Len(program.engines) :
        LET e == program.engines[i]
        IN  /\ e.tasks # <<>>
            /\ program' = Program_listen(program, i,
                              Legacy_runTask([e EXCEPT !.tasks = Tail(@)], Head(e.tasks)))
            /\ UNCHANGED <<c, log>>

\* an interior hands the state its method produced to the monitor
Answer ==
    \E i \in 1..Len(program.engines) :
        LET e == program.engines[i]
        IN  /\ Drained
            /\ e.inflight # <<>>
            /\ program' = Program_listen(program, i,
                              Engine_monitorEvent(program, [e EXCEPT !.inflight = Tail(@)],
                                                  "state", Head(e.inflight)))
            /\ UNCHANGED <<c, log>>

\* the interior of engine i hands (event, data) to the monitor on its own
Monitor(w, i, event, data) ==
    Program_listen(w, i, Engine_monitorEvent(w, w.engines[i], event, data))

\* an interior, of a registered engine or not, reports a state on its own
Report ==
    \E i \in 1..Len(program.engines), s \in Stable :
        /\ CanReceive
        /\ program.engines[i].delivery # "never"
        /\ program' = Monitor(Receive(program, Callback("report", i, s)), i, "state", s)
        /\ UNCHANGED <<c, log>>

\* an interior reports an error
Fault ==
    \E i \in 1..Len(program.engines) :
        /\ CanReceive
        /\ program.engines[i].delivery # "never"
        /\ program' = Monitor(Receive(program, Callback("fault", i, "err")), i, "error", "err")
        /\ UNCHANGED <<c, log>>

NextProgram ==
    \/ Create
    \/ Start
    \/ Stop
    \/ Destroy
    \/ Query
    \/ List
    \/ Invoke
    \/ Answer
    \/ Report
    \/ Fault

SpecProgram == InitProgram /\ [][NextProgram]_vars

\* ------------------------------------------------------------ vocabulary of the claims

IsPrefix(s, t) == Len(s) <= Len(t) /\ \A i \in 1..Len(s) : s[i] = t[i]

\* nothing is queued and the interior owes no report
Quiescent == c.tasks = <<>> /\ c.inflight = <<>>

Input(op, x, at, idle) == [op |-> op, arg |-> x, at |-> at, idle |-> idle]

Call(x, at, idle) == Input("setState", x, at, idle)

\* ------------------------------------------------------------------- C1

HappySeq ==
    <<StateEv("loading", "offline"), StateEv("stopped", "loading"),
      StateEv("starting", "stopped"), StateEv("running", "starting"),
      ReadyEv("running")>>

HappyRun ==
    /\ c.fn.load = "stopped"
    /\ c.fn.start = "running"
    /\ log = <<Call("running", "offline", TRUE)>>

\* C1: on a fresh engine whose interior's load reports stopped and whose
\* start reports running, a single setState('running') emits, in this order
\* and nothing else, state loading, stopped, starting, running and then
\* ready('running'); the engine ends in running.
C1_HappyPath ==
    HappyRun => /\ IsPrefix(c.events, HappySeq)
                /\ Quiescent => (c.events = HappySeq /\ c.state = "running")

C1_Witness == HappyRun /\ Quiescent /\ c.events = HappySeq /\ c.state = "running"

\* ------------------------------------------------------------------- C2

\* the last n elements of s (all of s when it is shorter)
LastN(s, n) == IF Len(s) <= n THEN s ELSE SubSeq(s, Len(s) - n + 1, Len(s))

\* setState('running') is the last input, given to a fresh engine or to one
\* that has settled at stopped, and the interior's start reports stopped
StartFailsRun ==
    /\ c.fn.load = "stopped"
    /\ c.fn.start = "stopped"
    /\ \/ log = <<Call("running", "offline", TRUE)>>
       \/ log = <<Call("stopped", "offline", TRUE), Call("running", "stopped", TRUE)>>

StartFailsTail(accepts) ==
    <<StateEv("starting", "stopped"), StateEv("stopped", "starting"),
      TransitionErr("running", "stopped", accepts)>>

Settled == Quiescent /\ c.expectation = None

LastTarget == log[Len(log)].arg

LastEvent == c.events[Len(c.events)]

InitCooperative ==
    /\ \E d \in {"tick", "io"} : c = NewContainer(Cooperative, d)
    /\ log = <<>>
    /\ program = None

\* a caller invokes setState with a stable target
SetStable ==
    \E x \in Stable :
        /\ Len(log) < MaxInputs
        /\ c' = Container_setState(c, x)
        /\ log' = Logged("setState", x)
        /\ UNCHANGED program

\* a caller invokes setState once the engine has come to rest
SetStableSettled ==
    \E x \in Stable :
        /\ Settled
        /\ Len(log) < MaxRounds
        /\ c' = Container_setState(c, x)
        /\ log' = Logged("setState", x)
        /\ UNCHANGED program

NextSettled ==
    \/ SetStableSettled
    \/ Tick
    \/ Deliver

\* the nextTick queue always runs, and the cooperative interior always
\* reports in the end
Fairness == WF_vars(Tick) /\ WF_vars(Deliver)

\* one setState at a time, each given to an engine at rest
SpecSettled == InitCooperative /\ [][NextSettled]_vars /\ Fairness

NextFair ==
    \/ SetStable
    \/ Tick
    \/ Deliver

\* setState at arbitrary moments
SpecFair == InitCooperative /\ [][NextFair]_vars /\ Fairness

ReachedBy(T) ==
    /\ Settled
    /\ c.state = T
    /\ c.events # <<>>
    /\ LastEvent = ReadyEv(T)

\* C3: with the cooperative interior, from every stable state S the engine
\* rests in and for every stable target T, one setState(T) leads to
\* ready(T) with state = T, and the state stays T until the next call.
C3_Convergence ==
    /\ \A T \in Stable : (log # <<>> /\ LastTarget = T) ~> ReachedBy(T)
    /\ [][\A T \in Stable : (ReachedBy(T) /\ log' = log) => c'.state = T]_vars

C3_Witness ==
    /\ Len(log) = 2
    /\ log[2].at = "running"
    /\ ReachedBy("offline")
    /\ c.calls = <<"load", "start", "stop", "unload">>

\* C4: whatever the moments at which setState is called, with the
\* cooperative interior the engine comes to rest in the target of the last
\* setState call.  Stated on the states in which the engine is at rest:
\* nothing is queued or owed there, so the state can no longer change.
C4_LastWins == (Quiescent /\ log # <<>>) => c.state = LastTarget

\* ------------------------------------------------------------------- C5

RetargetSeq ==
    <<StateEv("loading", "offline"), StateEv("stopped", "loading"),
      StateEv("unloading", "stopped"), StateEv("offline", "unloading"),
      ReadyEv("offline")>>

\* setState('running') on a fresh engine, then setState('offline') while the
\* engine is in loading; load reports stopped and unload reports offline
RetargetRun ==
    /\ c.fn.load = "stopped"
    /\ c.fn.unload = "offline"
    /\ log = <<Call("running", "offline", TRUE), Call("offline", "loading", FALSE)>>

\* C5: after setState('running') and, in loading, setState('offline'), the
\* engine waits for the load to report stopped and only then emits unloading
\* and offline; it ends in offline with exactly one ready('offline') and no
\* ready('running').
C5_Retarget ==
    RetargetRun => /\ IsPrefix(c.events, RetargetSeq)
                   /\ Quiescent => (c.events = RetargetSeq /\ c.state = "offline")

\* ------------------------------------------------------------------- C6

NumTasks(type) == Cardinality({i \in 1..Len(c.tasks) : c.tasks[i].type = type})

\* interior actions posted for invocation, or invoked and not yet answered
\* by a state report (every report answers a call when the interior never
\* reports on its own)
Outstanding == NumTasks("call") + NumTasks("report") + Len(c.inflight)

\* C6: at most one interior action is scheduled or unanswered at any time.
C6_OneInFlight == Count("spont") = 0 => Outstanding <= 1

\* ------------------------------------------------------------------- C7

\* e left alone by its callers: the nextTick queue drains, then the I/O
\* callbacks of the interior run, until nothing is left (at most n steps)
RECURSIVE RunToRest(_, _)
RunToRest(e, n) ==
    IF n = 0 THEN e
    ELSE IF e.tasks # <<>>
    THEN RunToRest(RunTask([e EXCEPT !.tasks = Tail(@)], Head(e.tasks)), n - 1)
    ELSE IF e.inflight # <<>>
    THEN RunToRest(Container_monitorEvent([e EXCEPT !.inflight = Tail(@)],
                                          "state", Head(e.inflight)), n - 1)
    ELSE e

MaxRun == 60

Outcome(e) == LET r == RunToRest(e, MaxRun) IN <<r.events, r.calls>>

Once(T) == Container_setState(c, T)

Twice(T) == Container_setState(Container_setState(c, T), T)

\* C7: in every engine state and for every stable target T that differs from
\* the engine's state, setState(T) called twice in a row leads to the same
\* events and the same interior invocations as setState(T) called once.
C7_Idempotent ==
    \A T \in Stable \ {c.state} : Outcome(Twice(T)) = Outcome(Once(T))

\* ------------------------------------------------------------------- C8

\* C8 as stated: for every interior, a stable state equals interiorState
C8_Original == c.state \in Stable => c.state = c.interiorState

\* C8: for every interior that implements load and unload, whenever the
\* engine's state is offline, stopped or running it equals interiorState.
C8_StableIsInterior ==
    (c.fn.load # None /\ c.fn.unload # None) =>
        (c.state \in Stable => c.state = c.interiorState)

\* a full interior has been started and then reports stopped on its own
C8_Witness ==
    /\ c.fn.load # None
    /\ c.fn.unload # None
    /\ log = <<Call("running", "offline", TRUE),
               Input("spont", "stopped", "running", TRUE)>>
    /\ Quiescent
    /\ c.state = "stopped"
    /\ c.interiorState = "stopped"

\* ------------------------------------------------------------------- C9

Rejected(e) == [e EXCEPT !.result = "InvalidArgument"]

\* C9: setState with an argument that is not offline, stopped or running
\* (a transient state name included) fails with InvalidArgument and leaves
\* state, expectation, interiorState, the emitted events and the nextTick
\* queue as they were.
C9_InvalidArgument ==
    [][/\ \A x \in Transient \cup {"bogus"} : Container_setState(c, x) = Rejected(c)
       /\ \A x \in Targets \ Stable :
             log' = Logged("setState", x) => c' = Rejected(c)]_vars

C9_Witness ==
    /\ Len(log) = 2
    /\ log[2] = Call("loading", "starting", FALSE)
    /\ c.result = "InvalidArgument"
    /\ c.expectation = "running"
    /\ c.tasks # <<>>

\* ------------------------------------------------------------------ C10

\* this step hands the monitor a stable state equal to the engine's state
SpuriousReport ==
    /\ c.state \in Stable
    /\ \/ /\ c.tasks # <<>>
          /\ Head(c.tasks).type = "report"
          /\ Head(c.tasks).data = c.state
          /\ Tick
       \/ /\ c.inflight # <<>>
          /\ Head(c.inflight) = c.state
          /\ Deliver

\* C10: a report of the state the engine is already in emits nothing and
\* leaves the state alone; every status and error the interior reports,
\* before or after, is emitted.
C10_Spurious ==
    [][/\ SpuriousReport => (c'.events = c.events /\ c'.state = c.state)
       /\ \A p \in Payloads :
             log' = Logged("monitor", p) => c'.events = Append(c.events, StatusEv(p))
       /\ log' = Logged("monitor", "err") =>
             c'.events = Append(c.events, InteriorErr("err"))]_vars

\* running was reached, the interior reported running again, and a status
\* reported after that report was handled has been emitted
C10_Witness ==
    /\ log = <<Call("running", "offline", TRUE),
               Input("spont", "running", "running", TRUE),
               Input("monitor", "p1", "running", TRUE)>>
    /\ c.events = HappySeq \o <<StatusEv("p1")>>
    /\ c.state = "running"

\* ------------------------------------------------- vocabulary, the Program

\* this step hands message m to the Program
Received(m) == program'.received = program.received + 1 /\ program'.request = m

\* list(): the ids the Program answers
ListIds == Keys(program)

\* every nextTick queue is empty and no interior owes a report
AtRest ==
    \A i \in 1..Len(program.engines) :
        program.engines[i].tasks = <<>> /\ program.engines[i].inflight = <<>>

Answered(op, id, result) == [op |-> op, id |-> id, result |-> result]

\* ------------------------------------------------------------------ C11

\* C11: an error the interior hands to the monitor, in whatever state the
\* engine is, is emitted by the engine as one error event, and the engine's
\* state, interiorState and expectation stay as they were.
C11_InteriorError ==
    [][\A i \in 1..Len(program.engines) :
          Received(Callback("fault", i, "err")) =>
              LET e == program.engines[i]
                  f == program'.engines[i]
              IN  /\ f.events = Append(e.events, InteriorErr("err"))
                  /\ f.state = e.state
                  /\ f.interiorState = e.interiorState
                  /\ f.expectation = e.expectation]_vars

\* ------------------------------------------------------------------ C12

IsStatus(ev) == ev.type = "status"

IsPayload(x) == x.op = "monitor" /\ x.arg \in Payloads

\* the payloads of the status events in s, in order
StatusOf(s) == LET t == SelectSeq(s, IsStatus) IN [i \in 1..Len(t) |-> t[i].data]

\* the status payloads the interior has delivered, in order
PayloadsOf(l) == LET t == SelectSeq(l, IsPayload) IN [i \in 1..Len(t) |-> t[i].arg]

\* C12: the status events the engine has emitted are the payloads the
\* interior delivered, each once and in the order delivered; delivering a
\* payload, in whatever state, stores it as the status, emits it and changes
\* nothing else (state, interiorState, expectation and the queue included).
C12_Status ==
    [][/\ StatusOf(c'.events) = PayloadsOf(log')
       /\ \A p \in Payloads :
             log' = Logged("monitor", p) =>
                 c' = [c EXCEPT !.status = p, !.events = Append(@, StatusEv(p))]]_vars

\* two payloads delivered while the engine is in loading with the load
\* still to be invoked; the later one is the stored status
C12_Witness ==
    /\ log = <<Call("running", "offline", TRUE),
               Input("monitor", "p2", "loading", FALSE),
               Input("monitor", "p1", "loading", FALSE)>>
    /\ StatusOf(c.events) = <<"p2", "p1">>
    /\ c.status = "p1"
    /\ c.state = "loading"
    /\ c.expectation = "running"

\* ------------------------------------------------------------------ C13

\* how the engine reached stopped: loading, stopped, ready('stopped')
ToStoppedSeq ==
    <<StateEv("loading", "offline"), StateEv("stopped", "loading"), ReadyEv("stopped")>>

NoUnloadSeq ==
    <<StateEv("unloading", "stopped"), StateEv("offline", "unloading"), ReadyEv("offline")>>

\* an interior without unload; the engine was brought to rest in stopped
\* and then given setState('offline')
NoUnloadRun ==
    /\ c.fn.unload = None
    /\ log = <<Call("stopped", "offline", TRUE), Call("offline", "stopped", TRUE)>>

\* C13: at stopped, with an interior that lacks unload, setState('offline')
\* makes the engine emit state unloading, then state offline and then
\* ready('offline'), nothing else; no method of the interior is invoked for
\* it and no report of the interior is involved.
C13_NoUnload ==
    NoUnloadRun =>
        /\ \E k \in 0..3 : c.events = ToStoppedSeq \o SubSeq(NoUnloadSeq, 1, k)
        /\ Quiescent => (c.events = ToStoppedSeq \o NoUnloadSeq /\ c.state = "offline")
        /\ c.calls = (IF c.fn.load = None THEN <<>> ELSE <<"load">>)
        /\ NumTasks("report") = 0
        /\ c.inflight = <<>>
        /\ c.interiorState = (IF c.fn.load = None THEN "offline" ELSE "stopped")

C13_Witness ==
    /\ NoUnloadRun
    /\ Quiescent
    /\ c.events = ToStoppedSeq \o NoUnloadSeq
    /\ c.state = "offline"
    /\ c.interiorState = "stopped"

\* ------------------------------------------------------------------ C14

\* C14: a create for an id that is in the registry is answered Conflict;
\* no engine is constructed, every engine (the one registered under the id
\* included) stays as it was, and so does the registry map.
C14_Conflict ==
    [][\A id \in Ids, conf \in Configs :
          (Received(CreateRequest(id, conf)) /\ program.containers[id] # 0) =>
              /\ program'.response = Answered("create", id, "Conflict")
              /\ program'.engines = program.engines
              /\ program'.containers = program.containers]_vars

\* a second create of a, answered Conflict while the engine of a is at
\* rest in stopped and b is registered as well
C14_Witness ==
    /\ program.variant = "class"
    /\ program.request = CreateRequest("a", "external")
    /\ program.response = Answered("create", "a", "Conflict")
    /\ Len(program.engines) = 2
    /\ program.containers["a"] = 1
    /\ program.containers["b"] = 2
    /\ program.engines[1].state = "stopped"

\* ------------------------------------------------------------------ C15

\* the requests that go through _withContainer
ById == {"start", "stop", "destroy", "query"}

\* C15: start, stop, destroy and query for an id that is not in the
\* registry, never created or removed again, are answered NotFound; no
\* engine and no entry of the registry changes, and nothing is broadcast.
C15_NotFound ==
    [][\A id \in Ids, op \in ById, force \in BOOLEAN :
          (Received(Request(op, id, force)) /\ program.containers[id] = 0) =>
              /\ program'.response = Answered(op, id, "NotFound")
              /\ program'.engines = program.engines
              /\ program'.containers = program.containers
              /\ program'.cast = program.cast]_vars

\* a was created, came to rest in stopped and was removed when its interior
\* reported offline; the destroy of a that followed was answered NotFound
C15_Witness ==
    /\ program.variant = "class"
    /\ program.request = Request("destroy", "a", FALSE)
    /\ program.response = Answered("destroy", "a", "NotFound")
    /\ Len(program.engines) = 1
    /\ program.engines[1].id = "a"
    /\ program.engines[1].state = "offline"
    /\ program.engines[1].interiorState = "offline"
    /\ program.containers["a"] = 0

\* ------------------------------------------------------------------ C16

\* engine i has emitted a state event with curr = offline, prev # offline
WentOffline(i) ==
    \E k \in 1..Len(program.engines[i].events) :
        LET ev == program.engines[i].events[k]
        IN  ev.type = "state" /\ ev.curr = "offline" /\ ev.prev # "offline"

\* destroy has reached some engine constructed under id
Destroyed(id) ==
    \E i \in 1..Len(program.engines) :
        program.engines[i].id = id /\ InSeq("unload", program.engines[i].asked)

\* C16: with the Container whose load the Program can call, an engine that
\* was created under an id never destroyed, and has not emitted a state
\* event with curr = offline and prev # offline, has its id in list().
C16_Listed ==
    program.variant = "class" =>
        \A i \in 1..Len(program.engines) :
            (~Destroyed(program.engines[i].id) /\ ~WentOffline(i)) =>
                program.engines[i].id \in ListIds

\* ------------------------------------------------------------------ C17

\* the last message was a destroy of id that found a container
DestroyReached(id) ==
    /\ program.request = Request("destroy", id, FALSE)
    /\ program.response.op = "destroy"
    /\ program.response.result # "NotFound"

\* C17: with the Container whose unload the Program can call and the test
\* interior, once a destroy of a registered id has been given and
\* everything it set off has run, the engine is offline and the id is no
\* longer in list().  Stated on the states in which every queue is empty
\* and no interior owes a report: nothing can change there any more.
C17_Destroy ==
    program.variant = "class" =>
        \A id \in Ids :
            (DestroyReached(id) /\ AtRest) =>
                /\ id \notin ListIds
                /\ \A i \in 1..Len(program.engines) :
                      program.engines[i].id = id => program.engines[i].state = "offline"

\* ------------------------------------------------------------------ C18

\* the state the method last called on the container aims at
Target(e) ==
    IF e.asked = <<>> THEN None
    ELSE LET m == e.asked[Len(e.asked)]
         IN  CASE m = "load"   -> "stopped"
               [] m = "start"  -> "running"
               [] m = "stop"   -> "stopped"
               [] m = "unload" -> "offline"

\* this step takes id out of the registry
Removed(id) == id \in Keys(program) /\ id \notin Keys(program')

\* the events engine i emits in this step
NewEvents(i) ==
    LET old == IF i <= Len(program.engines) THEN Len(program.engines[i].events) ELSE 0
    IN  SubSeq(program'.engines[i].events, old + 1, Len(program'.engines[i].events))

\* in this step an engine constructed under id emits state offline with a
\* previous state other than offline
EmitsOffline(id) ==
    \E i \in 1..Len(program'.engines) :
        /\ program'.engines[i].id = id
        /\ \E k \in 1..Len(NewEvents(i)) :
              LET ev == NewEvents(i)[k]
              IN  ev.type = "state" /\ ev.curr = "offline" /\ ev.prev # "offline"

\* C18 as stated: an id leaves the registry only when its engine's state
\* becomes offline and the last target asked of that engine was offline
C18_Original ==
    [][\A id \in Ids :
          Removed(id) =>
              LET i == program.containers[id]
              IN  /\ program'.engines[i].state = "offline"
                  /\ Target(program.engines[i]) = "offline"]_vars

\* C18: an id leaves the registry at exactly the steps in which an engine
\* constructed under that id emits a state event with state offline and a
\* last state other than offline, whatever was last asked of the engine.
C18_Eviction ==
    [][\A id \in Ids :
          Removed(id) <=> (id \in Keys(program) /\ EmitsOffline(id))]_vars

\* a was created and started; at rest in running its interior reported
\* offline, and a left the registry although running was asked last
C18_Witness ==
    /\ program.variant = "class"
    /\ program.request = Callback("report", 1, "offline")
    /\ Len(program.engines) = 1
    /\ program.engines[1].asked = <<"load", "start">>
    /\ program.engines[1].calls = <<Invocation("load", FALSE), Invocation("start", FALSE)>>
    /\ program.engines[1].events[Len(program.engines[1].events)] =
           StateEv("offline", "running")
    /\ program.containers["a"] = 0
    /\ program.engines[1].id = "a"

\* ------------------------------------------------------------------ C19

\* the nextTick task that invokes stop with the force flag
ForcedStop == [type |-> "invoke", action |-> "stop", force |-> TRUE]

\* C19: a stop with force for a registered id invokes the interior's stop
\* with force = true at once when the engine is in stopping, and leaves it
\* in stopping; when the engine is in running or starting, the stop it
\* schedules carries force = true; a stop without force in stopping invokes
\* and schedules nothing.
C19_ForceStop ==
    [][\A id \in Ids, force \in BOOLEAN :
          (Received(Request("stop", id, force)) /\ program.containers[id] # 0) =>
              LET e == program.engines[program.containers[id]]
                  f == program'.engines[program.containers[id]]
              IN  /\ (force /\ e.state = "stopping") =>
                        /\ f.calls = Append(e.calls, Invocation("stop", TRUE))
                        /\ f.state = "stopping"
                  /\ (force /\ e.state \in {"running", "starting"}) =>
                        f.tasks = Append(e.tasks, ForcedStop)
                  /\ (~force /\ e.state = "stopping") =>
                        (f.calls = e.calls /\ f.tasks = e.tasks)]_vars

\* ------------------------------------------------------------------ C20

\* the condition the file's overview puts on invoking method a
MayInvoke(a) ==
    CASE a = "load"   -> c.interiorState = "offline"
      [] a = "unload" -> c.interiorState = "stopped"
      [] a = "start"  -> c.interiorState = "stopped"
      [] a = "stop"   -> c.state \in {"starting", "running", "stopping"}

\* the interior implements load, unload, start and stop
FullInterior == \A a \in Actions : c.fn[a] # None

\* C20: whenever the engine invokes a method of the interior, with an
\* interior that implements every method and never reports on its own, the
\* method's precondition holds at that moment: load with the last reported
\* state offline, unload and start with stopped, stop with the engine in
\* starting, running or stopping.
C20_Preconditions ==
    [][(FullInterior /\ Count("spont") = 0) =>
          \A a \in Actions : c'.calls = Append(c.calls, a) => MayInvoke(a)]_vars

\* ------------------------------------------- vocabulary, steps of the engine

\* the state report the step of the queue that comes next hands to the
\* monitor; None when that step is not a report
ReportData ==
    IF c.tasks # <<>>
    THEN (IF Head(c.tasks).type = "report" THEN Head(c.tasks).data ELSE None)
    ELSE IF c.inflight # <<>> THEN Head(c.inflight) ELSE None

\* this step is a step of the queue (a nextTick task or an I/O callback),
\* not an input
QueueStep == log' = log

\* ------------------------------------------------------------------ C22

\* the engine's last event is a transition failure at its present state,
\* which the interior reported, and no setState call has been made since
Failed ==
    /\ c.events # <<>>
    /\ LastEvent.type = "error"
    /\ LastEvent.kind = "transition"
    /\ LastEvent.actual = c.state
    /\ c.state \in Stable
    /\ c.interiorState = c.state
    /\ c.expectation = None
    /\ c.result = "ok"

\* C22: whenever a plan with target T is active and the interior reports a
\* stable state s, other than the engine's state, that is not in the plan's
\* accepts, the engine sets state to s and emits one error with expectation
\* T, actual s and that accepts list, and clears the expectation; from then
\* on, every step that is neither a setState call nor a state report of the
\* interior leaves the state alone and emits nothing.
C22_TransitionFailure ==
    [][/\ \A s \in Stable :
             (/\ QueueStep
              /\ ReportData = s
              /\ c.expectation # None
              /\ s # c.state
              /\ ~InSeq(s, c.accepts)) =>
                 /\ c'.events = c.events \o
                        <<StateEv(s, c.state), TransitionErr(c.expectation, s, c.accepts)>>
                 /\ c'.state = s
                 /\ c'.expectation = None
       /\ (Failed /\ QueueStep /\ ReportData = None) =>
             (c'.state = c.state /\ c'.events = c.events)]_vars

\* ------------------------------------------------------------------ C23

\* the events the engine emits in this step
Emitted == SubSeq(c'.events, Len(c.events) + 1, Len(c'.events))

\* the intermediate state the rule of the plan in force posts, if any
Dictated ==
    IF c.expectation = None \/ c.expectation = c.state THEN {}
    ELSE LET r == TransitRules(c.state, c.expectation)
         IN  {r.invoke[i].to : i \in 1..Len(r.invoke)}

\* C23 as stated: a state event emitted while a plan is active carries the
\* plan's intermediate state or a member of the plan's accepts
C23_Original ==
    [][\A k \in 1..Len(Emitted) :
          (Emitted[k].type = "state" /\ c.expectation # None /\ QueueStep) =>
              (Emitted[k].curr \in Dictated \/ InSeq(Emitted[k].curr, c.accepts))]_vars

\* C23: a state event state(curr, prev) the engine emits while a plan with
\* target T is active either has curr among the plan's accepts, or is
\* followed at once by the error of a transition failure with expectation
\* T, actual curr and those accepts, which ends the plan; the intermediate
\* state a rule posts is a member of the accepts the rule returns.
C23_Accepted ==
    [][/\ \A k \in 1..Len(Emitted) :
             (Emitted[k].type = "state" /\ c.expectation # None /\ QueueStep) =>
                 \/ InSeq(Emitted[k].curr, c.accepts)
                 \/ /\ Emitted = <<StateEv(Emitted[k].curr, c.state),
                                   TransitionErr(c.expectation, Emitted[k].curr, c.accepts)>>
                    /\ c'.expectation = None
       /\ \A s \in Dictated : InSeq(s, TransitRules(c.state, c.expectation).accepts)]_vars

\* setState('running') at rest in stopped and, before the deferred step,
\* setState('offline'): the deferred step of the first call enters
\* starting, which the plan for offline does not accept
C23_Witness ==
    /\ Len(log) = 3
    /\ log[2] = Call("running", "stopped", TRUE)
    /\ log[3] = Call("offline", "stopped", FALSE)
    /\ c.state = "starting"
    /\ LastN(c.events, 2) =
           <<StateEv("starting", "stopped"),
             TransitionErr("offline", "starting", <<"unloading", "offline">>)>>

\* ------------------------------------------------------------------ C24

\* the intermediate state in which the engine invokes method a
TransientOf(a) ==
    CASE a = "load"   -> "loading"
      [] a = "unload" -> "unloading"
      [] a = "start"  -> "starting"
      [] a = "stop"   -> "stopping"

\* a state event with curr = s is among the events
Announced(s, events) ==
    \E k \in 1..Len(events) : events[k].type = "state" /\ events[k].curr = s

\* the tasks this step appends to the nextTick queue
Posted ==
    LET kept == IF QueueStep /\ c.tasks # <<>> THEN Len(c.tasks) - 1 ELSE Len(c.tasks)
    IN  SubSeq(c'.tasks, kept + 1, Len(c'.tasks))

IsState(ev) == ev.type = "state"

\* the state events among s, in order
StateEvents(s) == SelectSeq(s, IsState)

\* C25: the state events the engine has emitted form a chain: each has
\* curr # prev, the first has prev = offline and every later one has the
\* curr of the one before as its prev, and the engine's state is the curr of
\* the last one (offline when there is none).
C25_Linear ==
    LET st == StateEvents(c.events)
    IN  /\ \A k \in 1..Len(st) :
              /\ st[k].curr # st[k].prev
              /\ st[k].prev = (IF k = 1 THEN "offline" ELSE st[k - 1].curr)
        /\ c.state = (IF st = <<>> THEN "offline" ELSE st[Len(st)].curr)

\* the engine was brought to running and its interior then reported offline
\* on its own: five state events, the last one from running to offline
C25_Witness ==
    /\ log = <<Call("running", "offline", TRUE),
               Input("spont", "offline", "running", TRUE)>>
    /\ StateEvents(c.events) =
           <<StateEv("loading", "offline"), StateEv("stopped", "loading"),
             StateEv("starting", "stopped"), StateEv("running", "starting"),
             StateEv("offline", "running")>>
    /\ c.state = "offline"

\* ------------------------------------------------------------------ C26

IsTransit(t) == t.type = "transit"

Range(s) == {s[i] : i \in 1..Len(s)}

\* the table of the specification (section 4.1):
\* <<from, to, intermediate, action, auto_advance, accepts>>
SpecifiedTable ==
    {<<"offline", "stopped", "loading", "load", "stopped", {"loading", "stopped"}>>,
     <<"offline", "running", "loading", "load", "stopped",
       {"loading", "stopped", "running"}>>,
     <<"stopped", "offline", "unloading", "unload", "offline", {"unloading", "offline"}>>,
     <<"stopped", "running", "starting", "start", None, {"starting", "running"}>>,
     <<"running", "stopped", "stopping", "stop", None, {"stopping", "stopped"}>>,
     <<"running", "offline", "stopping", "stop", None,
       {"stopping", "stopped", "offline"}>>,
     <<"loading", "offline", "unloading", "unload", "offline",
       {"loading", "stopped", "unloading", "offline"}>>,
     <<"starting", "stopped", "stopping", "stop", None,
       {"starting", "running", "stopping", "stopped"}>>,
     <<"starting", "offline", "stopping", "stop", None,
       {"starting", "running", "stopping", "stopped", "offline"}>>,
     <<"stopping", "running", None, None, None, {"stopping", "stopped"}>>,
     <<"stopping", "offline", None, None, None, {"stopping", "stopped", "offline"}>>,
     <<"unloading", "offline", None, None, None, {"unloading", "offline"}>>,
     <<"unloading", "stopped", None, None, None, {"unloading", "offline"}>>,
     <<"unloading", "running", None, None, None, {"unloading", "offline"}>>}

\* the same pairs with the accepts lists the rules return
ImplementedTable ==
    {<<"offline", "stopped", "loading", "load", "stopped", <<"loading", "stopped">> >>,
     <<"offline", "running", "loading", "load", "stopped", <<"loading", "stopped">> >>,
     <<"stopped", "offline", "unloading", "unload", "offline", <<"unloading", "offline">> >>,
     <<"stopped", "running", "starting", "start", None, <<"starting", "running">> >>,
     <<"running", "stopped", "stopping", "stop", None, <<"stopping", "stopped">> >>,
     <<"running", "offline", "stopping", "stop", None, <<"stopping", "stopped">> >>,
     <<"loading", "offline", "unloading", "unload", "offline",
       <<"unloading", "stopped", "offline">> >>,
     <<"starting", "stopped", "stopping", "stop", None,
       <<"running", "stopping", "stopped">> >>,
     <<"starting", "offline", "stopping", "stop", None,
       <<"running", "stopping", "stopped">> >>,
     <<"stopping", "running", None, None, None, <<"stopped">> >>,
     <<"stopping", "offline", None, None, None, <<"stopped">> >>,
     <<"unloading", "offline", None, None, None, <<"offline">> >>,
     <<"unloading", "stopped", None, None, None, <<"offline">> >>,
     <<"unloading", "running", None, None, None, <<"offline">> >>}

\* the deferred step a row of the table schedules
PlanOf(r) == IF r[3] = None THEN <<>> ELSE <<_invoke(r[3], r[4], r[5])>>

\* in this step the engine looks up the rule for (from, to): a setState(to)
\* in state from, or a change of state to from while to is expected
Plans(from, to) ==
    /\ c'.state = from
    /\ c'.expectation = to
    /\ \/ log' = Logged("setState", to)
       \/ QueueStep /\ c.state # from

\* C26 as stated: the rule of every pair the specification lists schedules
\* the listed intermediate state, action and auto-advance and returns the
\* listed accepts set
C26_Original ==
    [][\A r \in SpecifiedTable :
          Plans(r[1], r[2]) =>
              /\ SelectSeq(Posted, IsTransit) = PlanOf(r)
              /\ Range(c'.accepts) = r[6]]_vars

\* C26: for every pair the specification lists, the rule the engine looks
\* up schedules the listed intermediate state, action and auto-advance, and
\* returns the accepts list of ImplementedTable: the states accepted up to
\* the next stable state only, without the state the plan starts from.
C26_Rules ==
    [][\A r \in ImplementedTable :
          Plans(r[1], r[2]) =>
              /\ SelectSeq(Posted, IsTransit) = PlanOf(r)
              /\ c'.accepts = r[6]]_vars

\* at rest in running, setState('offline') has looked up running:offline
C26_Witness ==
    /\ log = <<Call("running", "offline", TRUE), Call("offline", "running", TRUE)>>
    /\ c.state = "running"
    /\ c.expectation = "offline"
    /\ c.accepts = <<"stopping", "stopped">>
    /\ c.tasks = <<_invoke("stopping", "stop", None)>>

\* ------------------------------------------------------------------ C27

\* the stable state an in-flight stop, respectively unload, leads to
NextStable(s) == IF s = "stopping" THEN "stopped" ELSE "offline"

InFlight == {"stopping", "unloading"}

\* C27: a setState(T) called while the engine is in stopping or unloading
\* records T and the one state it waits for, and changes nothing else: no
\* state, no event, no task, no invocation.  No step that leaves the engine
\* in stopping or unloading schedules a transition.  When the awaited
\* stable state s is then reported (or entered by the automatic transition
\* of an interior without unload), the engine enters s and, unless s = T,
\* plans from s to T with the rule for that pair.
C27_NoCancel ==
    [][/\ \A T \in Stable :
             (log' = Logged("setState", T) /\ c.state \in InFlight) =>
                 c' = [c EXCEPT !.expectation = T,
                                !.accepts = <<NextStable(c.state)>>,
                                !.result = "ok"]
       /\ c'.state \in InFlight => SelectSeq(Posted, IsTransit) = <<>>
       /\ \A T \in Stable :
             (/\ QueueStep
              /\ c.state \in InFlight
              /\ c.expectation = T
              /\ c.accepts = <<NextStable(c.state)>>
              /\ \/ ReportData = NextStable(c.state)
                 \/ c'.state = NextStable(c.state)) =>
                 /\ c'.state = NextStable(c.state)
                 /\ IF T = c'.state
                    THEN /\ c'.expectation = None
                         /\ Posted = <<>>
                    ELSE /\ c'.expectation = T
                         /\ c'.accepts = TransitRules(c'.state, T).accepts
                         /\ Posted = TransitRules(c'.state, T).invoke]_vars

\* running was reached and setState('stopped') given; in stopping,
\* setState('running') was called; the stop was let finish, and the engine
\* then started the interior again
C27_Witness ==
    /\ log = <<Call("running", "offline", TRUE), Call("stopped", "running", TRUE),
               Call("running", "stopping", FALSE)>>
    /\ Quiescent
    /\ c.state = "running"
    /\ LastEvent = ReadyEv("running")
    /\ c.calls = <<"load", "start", "stop", "start">>

\* ------------------------------------------------------------------ C28

\* the methods whose rules give _invoke no automatic transition
NoFallback == {"start", "stop"}

\* the step that comes next is the deferred step of _invoke for method a
DeferredStep(a) ==
    /\ QueueStep
    /\ c.tasks # <<>>
    /\ Head(c.tasks).type = "transit"
    /\ Head(c.tasks).action = a

\* C28: when the deferred step of _invoke for start, respectively stop,
\* finds that the interior lacks the method, the engine enters starting,
\* respectively stopping, emitting that state event at most, and posts
\* nothing: no call, no automatic transition, no retry.  If a plan is
\* active after the step, the nextTick queue then holds nothing but state
\* reports of the interior and repeated deferred steps for the same state,
\* which change nothing: the engine stays as it is, and emits nothing, until
\* a state report is handled or setState is called.
C28_Waits ==
    [][\A a \in NoFallback :
          (DeferredStep(a) /\ c.fn[a] = None) =>
              /\ c'.state = TransientOf(a)
              /\ c'.calls = c.calls
              /\ Posted = <<>>
              /\ c'.expectation # None =>
                    /\ c'.expectation = c.expectation
                    /\ Emitted = (IF c.state = TransientOf(a) THEN <<>>
                                  ELSE <<StateEv(TransientOf(a), c.state)>>)
                    /\ \A k \in 1..Len(c'.tasks) :
                          \/ c'.tasks[k].type = "report"
                          \/ c'.tasks[k] = Head(c.tasks)]_vars

\* ------------------------------------------------------------------ C29

IsReady(ev) == ev.type = "ready"

IsError(ev) == ev.type = "error"

\* the expectation in force in this step: the target of the setState call
\* the step is, or else the expectation the engine holds
InForce ==
    IF \E T \in Stable : log' = Logged("setState", T)
    THEN log'[Len(log')].arg
    ELSE c.expectation

\* in this step the engine comes to be in the expectation in force: a
\* setState for the state it is in, or an accepted change to that state
Reaches(T) ==
    /\ InForce = T
    /\ c'.state = T
    /\ IF QueueStep THEN c.state # T /\ InSeq(T, c.accepts) ELSE c.state = T

\* C29: a step emits at most one ready; ready(T) is the last event of its
\* step, T is the expectation in force and the engine's state at that
\* moment, and the expectation is unset when the step ends; a step in which
\* the engine reaches the expectation in force emits ready for it, and a
\* step that emits the error of a transition failure emits no ready.
C29_Ready ==
    [][LET readies == SelectSeq(Emitted, IsReady)
       IN  /\ Len(readies) <= 1
           /\ \A T \in Stable \cup Transient :
                 InSeq(ReadyEv(T), Emitted) =>
                     /\ Emitted[Len(Emitted)] = ReadyEv(T)
                     /\ InForce = T
                     /\ c'.state = T
                     /\ c'.expectation = None
           /\ \A T \in Stable : Reaches(T) => readies = <<ReadyEv(T)>>
           /\ SelectSeq(Emitted, IsError) # <<>> => readies = <<>>]_vars

\* setState('running') on a fresh engine was replaced by setState('stopped')
\* while the engine was loading: one ready, for stopped, and none for running
C29_Witness ==
    /\ log = <<Call("running", "offline", TRUE), Call("stopped", "loading", FALSE)>>
    /\ Quiescent
    /\ c.events = <<StateEv("loading", "offline"), StateEv("stopped", "loading"),
                    ReadyEv("stopped")>>
    /\ c.state = "stopped"
    /\ c.expectation = None

\* ------------------------------------------------------------------ C30

\* C30: whenever no expectation is set and the nextTick queue holds no
\* deferred task, the engine's state is offline, stopped or running; and
\* whenever the engine is in loading, unloading, starting or stopping, an
\* expectation is set.
C30_StableAtRest ==
    /\ (c.expectation = None /\ c.tasks = <<>>) => c.state \in Stable
    /\ c.state \in Transient => c.expectation # None

\* ------------------------------------------------------------------ C21

\* the configurations the constructor is meant to refuse: what is no object,
\* and an object naming an interior that is not registered
InvalidConfigs == {conf \in Configs : conf = NotObject \/ conf \notin Registered}

\* C21: a create of an id that is not in the registry whose configuration
\* is no object, or names an interior that is not registered, is answered
\* with an error, constructs no engine and leaves the registry without an
\* entry for the id, so that a later create of the id with a valid
\* configuration is not answered Conflict.
C21_InvalidConfig ==
    [][\A id \in Ids, conf \in InvalidConfigs :
          (Received(CreateRequest(id, conf)) /\ program.containers[id] = 0) =>
              /\ program'.response = Answered("create", id, "Error")
              /\ program'.engines = program.engines
              /\ program'.containers[id] = 0
              /\ \A good \in Registered :
                     Program_create(program', id, good).response
                         # Answered("create", id, "Conflict")]_vars

\* ------------------------------------------------------------------ C31

\* state names an interior may report that are not stable
Unstable == Reported \ Stable

\* C31: interiorState is always offline, stopped or running, and the step
\* that hands the monitor a 'state' report whose data is not one of these
\* three names changes nothing of the engine: not the state, not
\* interiorState, not the plan, and no event is emitted.
C31_InteriorState ==
    /\ [](c.interiorState \in Stable)
    /\ [][\A s \in Unstable :
             (QueueStep /\ ReportData = s) =>
                 /\ c'.state = c.state
                 /\ c'.interiorState = c.interiorState
                 /\ c'.events = c.events
                 /\ c'.expectation = c.expectation
                 /\ c'.accepts = c.accepts]_vars

\* setState('running') on a fresh engine; while load is in flight the
\* interior reports 'starting' on its own: the report has been handed to
\* the monitor and the run is the usual one
C31_Witness ==
    /\ log = <<Call("running", "offline", TRUE),
               Input("spont", "starting", "loading", FALSE)>>
    /\ Quiescent
    /\ c.events = HappySeq
    /\ c.state = "running"
    /\ c.interiorState = "running"

\* ------------------------------------------------------------------ C32

\* C32: every invocation of a method of the interior is made while an
\* expectation is set and the engine is in the transient state of that
\* method: load in loading, unload in unloading, start in starting, stop in
\* stopping; a deferred action whose plan has been completed, has failed
\* or was replaced before its step ran is therefore never invoked.
C32_Invocations ==
    [][\A a \in Actions :
          c'.calls = Append(c.calls, a) =>
              /\ c.expectation # None
              /\ c.state = TransientOf(a)]_vars

====
